---- MODULE Spec2Model ----
(***************************************************************************)
(* SocialGraphAnalyzer (src/social_graph_analyzer.py): an engine object    *)
(* built from an adjacency mapping (node -> list of neighbours) and four   *)
(* queries over the graph it holds.                                        *)
(*                                                                         *)
(* Numbers.  Edge weights are held in tenths (0.2 is 2).  A centrality     *)
(* score is the exact rational num/den, all scores of one result sharing   *)
(* den, so that "score > max * 0.75" is 4 * num > 3 * maxnum; the rounding *)
(* of the library's floating-point scores is not modelled.                 *)
(***************************************************************************)
EXTENDS Integers, Sequences, FiniteSets, TLC

\* ------------------------------------------------------------------ bounds
\* Node universe and size (keys plus neighbour entries) of the arbitrary
\* adjacency mappings handed to the constructor under Spec.
MaxNodes == 3
MaxSize == 3
\* Number of edges a caller gives an explicit weight before querying.
MaxWeighted == 2
\* Node count of the simple graphs handed to the constructor under SpecGraphs.
MaxGraphNodes == 4

\* ------------------------------------------------------- program constants
\* "if weight < 0.2", in tenths
WEAK_THRESHOLD == 2
\* "max(centralities.values()) * 0.75" as the fraction 3/4
THRESHOLD_NUM == 3
THRESHOLD_DEN == 4
\* ".get('weight', 0)"
DEFAULT_WEIGHT == 0

\* ------------------------------------------------------------------- nodes
NodeNames == <<"A", "B", "C", "D", "E", "F", "G", "H">>
NodesUpTo(n) == {NodeNames[i] : i \in 1..n}

\* Explicit weights a caller may store on an edge: 0.1, 0.2, 0.5.
WeightValues == {1, 2, 5}


\* ------------------------------------------------------- adjacency mappings
\* A Python dict node -> list, in insertion order: a sequence of entries with
\* pairwise distinct keys.
RECURSIVE SumLens(_, _)
SumLens(d, i) == IF i = 0 THEN 0 ELSE Len(d[i].nbrs) + SumLens(d, i - 1)

ListsUpTo(N, m) == UNION {[1..j -> N] : j \in 0..m}

MappingsOf(N, k, size) ==
    {d \in [1..k -> [key : N, nbrs : ListsUpTo(N, size - k)]] :
        /\ \A i, j \in 1..k : i # j => d[i].key # d[j].key
        /\ k + SumLens(d, k) <= size}

\* Every mapping over the first MaxNodes names of size at most MaxSize, the
\* empty mapping included.
Inputs == UNION {MappingsOf(NodesUpTo(MaxNodes), k, MaxSize) : k \in 0..MaxSize}

RECURSIVE SortedSeq(_)
SortedSeq(S) ==
    IF S = {} THEN << >>
    ELSE LET m == CHOOSE x \in S : \A y \in S : x <= y
         IN <<m>> \o SortedSeq(S \ {m})

\* The mapping that lists every edge {i, j}, i < j, of a simple graph on the
\* first n names once, under its smaller endpoint, keys in name order.
GraphMapping(n, E) ==
    [i \in 1..n |->
        [key |-> NodeNames[i],
         nbrs |-> LET js == SortedSeq({j \in (i + 1)..n : {i, j} \in E})
                  IN [x \in 1..Len(js) |-> NodeNames[js[x]]]]]

PairsOf(n) == {{i, j} : i \in 1..n, j \in 1..n} \ {{i} : i \in 1..n}

GraphInputs ==
    UNION {{GraphMapping(n, E) : E \in SUBSET PairsOf(n)} : n \in 0..MaxGraphNodes}

Keys(d) == {d[i].key : i \in 1..Len(d)}
Listed(d) == UNION {{d[i].nbrs[j] : j \in 1..Len(d[i].nbrs)} : i \in 1..Len(d)}

\* ----------------------------------------------------------- nx.Graph
\* nodes: the nodes in insertion order; adj[v]: v's neighbours in insertion
\* order; attr[{u, v}]: the attribute dict of the edge, << >> when empty,
\* [weight |-> w] when it holds a weight.
Elems(s) == {s[i] : i \in 1..Len(s)}
\* f as an explicit table: every value worked out once.
Table(f) == f @@ << >>
Restrict(f, S) == Table([x \in S |-> f[x]])
Has(s, x) == \E i \in 1..Len(s) : s[i] = x
Put(s, x) == IF Has(s, x) THEN s ELSE Append(s, x)

empty_graph == [nodes |-> << >>, adj |-> << >>, attr |-> << >>]

add_node(G, v) ==
    IF Has(G.nodes, v) THEN G
    ELSE [G EXCEPT !.nodes = Append(@, v), !.adj = @ @@ (v :> << >>)]

\* add_edge that joins only nodes the graph already holds.
add_edge_known_nodes_only(G, u, v) ==
    IF Has(G.nodes, u) /\ Has(G.nodes, v)
    THEN LET A1 == [G.adj EXCEPT ![u] = Put(@, v)]
             A2 == [A1 EXCEPT ![v] = Put(@, u)]
         IN [G EXCEPT !.adj = A2,
                      !.attr = IF {u, v} \in DOMAIN @ THEN @ ELSE @ @@ ({u, v} :> << >>)]
    ELSE G

\* Graph.add_edge(u, v): both endpoints become nodes, each enters the other's
\* adjacency once, a new edge gets an empty attribute dict.
add_edge(G, u, v) ==
    LET G1 == add_node(add_node(G, u), v)
        A1 == [G1.adj EXCEPT ![u] = Put(@, v)]
        A2 == [A1 EXCEPT ![v] = Put(@, u)]
    IN [G1 EXCEPT !.adj = A2,
                  !.attr = IF {u, v} \in DOMAIN @ THEN @ ELSE @ @@ ({u, v} :> << >>)]

RECURSIVE add_nodes_from(_, _, _)
add_nodes_from(G, d, i) ==
    IF i > Len(d) THEN G ELSE add_nodes_from(add_node(G, d[i].key), d, i + 1)

RECURSIVE add_edges_from(_, _, _, _)
add_edges_from(G, d, i, j) ==
    IF i > Len(d) THEN G
    ELSE IF j > Len(d[i].nbrs) THEN add_edges_from(G, d, i + 1, 1)
    ELSE add_edges_from(add_edge(G, d[i].key, d[i].nbrs[j]), d, i, j + 1)

\* nx.from_dict_of_lists(d): the keys first, then every (key, neighbour) edge.
from_dict_of_lists(d) == add_edges_from(add_nodes_from(empty_graph, d, 1), d, 1, 1)

Ok(v) == [raised |-> FALSE, value |-> v]
Raise(e) == [raised |-> TRUE, value |-> e]

\* _build_graph without the emptiness test.
_build_graph_unchecked(d) == Ok(from_dict_of_lists(d))

_build_graph(d) ==
    IF d = << >> THEN Raise("ValueError") ELSE Ok(from_dict_of_lists(d))

\* ------------------------------------------------------------ graph views
NodeSet(G) == Elems(G.nodes)
Nbrs(G, v) == Elems(G.adj[v])
EdgeSet(G) == DOMAIN G.attr

\* Graph.edges(): for every node n in node order and every neighbour nbr of n
\* in adjacency order, (n, nbr) unless nbr was an earlier node of the walk.
RECURSIVE edges_from(_, _, _)
edges_from(G, i, j) ==
    IF i > Len(G.nodes) THEN << >>
    ELSE LET n == G.nodes[i]
         IN IF j > Len(G.adj[n]) THEN edges_from(G, i + 1, 1)
            ELSE LET nbr == G.adj[n][j]
                     seen == {G.nodes[x] : x \in 1..(i - 1)}
                 IN (IF nbr \in seen THEN << >> ELSE <<(<<n, nbr>>)>>)
                    \o edges_from(G, i, j + 1)

edges(G) == edges_from(G, 1, 1)

\* str(edge) of a 2-tuple of str: "('A', 'B')".
str_edge(e) == "('" \o e[1] \o "', '" \o e[2] \o "')"

\* ------------------------------------------- nx.betweenness_centrality
RECURSIVE SumOver(_, _)
SumOver(f, S) ==
    IF S = {} THEN 0
    ELSE LET x == CHOOSE x \in S : TRUE IN f[x] + SumOver(f, S \ {x})

\* The breadth-first pass of Brandes' algorithm from one source: t.dist[v] is
\* the length of a shortest path to v and t.sigma[v] the number of shortest
\* paths, for every v reached so far; frontier holds the nodes at distance d.
RECURSIVE Bfs(_, _, _, _)
Bfs(G, frontier, d, t) ==
    IF frontier = {} THEN t
    ELSE LET nxt == UNION {Nbrs(G, v) : v \in frontier} \ DOMAIN t.dist
         IN Bfs(G, nxt, d + 1,
                [dist |-> [v \in nxt |-> d + 1] @@ t.dist,
                 sigma |-> [v \in nxt |->
                               LET P == Nbrs(G, v) \cap frontier
                               IN SumOver(Restrict(t.sigma, P), P)] @@ t.sigma])

ShortestPaths(G, s) == Bfs(G, {s}, 0, [dist |-> (s :> 0), sigma |-> (s :> 1)])

RECURSIVE Gcd(_, _)
Gcd(a, b) == IF b = 0 THEN a ELSE Gcd(b, a % b)

RECURSIVE LcmOf(_)
LcmOf(S) ==
    IF S = {} THEN 1
    ELSE LET x == CHOOSE x \in S : TRUE
             r == LcmOf(S \ {x})
         IN (x * r) \div Gcd(x, r)

\* Betweenness of every node, normalized=True, endpoints=False: the sum over
\* ordered pairs (s, t) of distinct nodes other than v of
\* sigma_st(v) / sigma_st, times 1 / ((n - 1)(n - 2)) when n > 2 and unscaled
\* when n <= 2.  The result is [num, den]: node v scores num[v] / den.
betweenness_centrality(G) ==
    LET N == NodeSet(G)
        n == Cardinality(N)
        sp == Table([s \in N |-> ShortestPaths(G, s)])
        L == LcmOf(UNION {{sp[s].sigma[t] : t \in DOMAIN sp[s].sigma} : s \in N})
        through(s, t, v) ==
            IF /\ t \in DOMAIN sp[s].dist
               /\ v \in DOMAIN sp[s].dist
               /\ sp[s].dist[v] + sp[v].dist[t] = sp[s].dist[t]
            THEN (L * sp[s].sigma[v] * sp[v].sigma[t]) \div sp[s].sigma[t]
            ELSE 0
    IN [num |-> Table([v \in N |->
                    LET P == {p \in (N \ {v}) \X (N \ {v}) : p[1] # p[2]}
                    IN SumOver(Table([p \in P |-> through(p[1], p[2], v)]), P)]),
        den |-> IF n > 2 THEN L * (n - 1) * (n - 2) ELSE L]

\* ------------------------------------------------------------ the queries
EmptyScores == [num |-> << >>, den |-> 1]

\* compute_centrality on nx.degree_centrality: degree / (n - 1).
compute_centrality_degree(G) ==
    IF NodeSet(G) = {} THEN Ok(EmptyScores)
    ELSE Ok([num |-> Table([v \in NodeSet(G) |-> Cardinality(Nbrs(G, v))]),
             den |-> IF Len(G.nodes) > 1 THEN Len(G.nodes) - 1 ELSE 1])

\* compute_centrality: {} on a nodeless graph, else the library's scores.
compute_centrality(G) ==
    IF NodeSet(G) = {} THEN Ok(EmptyScores) ELSE Ok(betweenness_centrality(G))

MaxOf(f) == CHOOSE m \in {f[x] : x \in DOMAIN f} : \A x \in DOMAIN f : f[x] <= m

\* The nodes kept for a threshold of max * tn / td; strict selects "score >
\* threshold", otherwise "score >= threshold".
Bottlenecks(G, tn, td, strict) ==
    LET c == compute_centrality(G)
    IN IF c.raised THEN c
       ELSE IF DOMAIN c.value.num = {} THEN Ok(EmptyScores)
       ELSE LET num == c.value.num
                mx == MaxOf(num)
                keep == {v \in DOMAIN num :
                            IF strict THEN td * num[v] > tn * mx
                            ELSE td * num[v] >= tn * mx}
            IN Ok([num |-> Restrict(num, keep), den |-> c.value.den])

\* identify_bottlenecks with >= for >, with max * 1 and with max * 1.25 for
\* the threshold.
identify_bottlenecks_non_strict(G) == Bottlenecks(G, THRESHOLD_NUM, THRESHOLD_DEN, FALSE)

identify_bottlenecks_above_max(G) == Bottlenecks(G, 1, 1, TRUE)

identify_bottlenecks_scaled_up(G) == Bottlenecks(G, THRESHOLD_DEN + 1, THRESHOLD_DEN, TRUE)

\* identify_bottlenecks: threshold = max * 0.75, keep score > threshold.
identify_bottlenecks(G) == Bottlenecks(G, THRESHOLD_NUM, THRESHOLD_DEN, TRUE)

\* nx.community.greedy_communities: networkx.algorithms.community has no
\* attribute of that name (its greedy routines are
\* greedy_modularity_communities and naive_greedy_modularity_communities), so
\* evaluating the attribute raises AttributeError before any call is made.
greedy_communities(G) == Raise("AttributeError")

\* detect_communities: {} on a nodeless graph; otherwise the library lookup,
\* whose exception the handler logs and re-raises.
detect_communities(G) ==
    IF NodeSet(G) = {} THEN Ok(<< >>)
    ELSE LET c == greedy_communities(G)
         IN IF c.raised THEN c
            ELSE Ok([i \in 0..(Len(c.value) - 1) |-> c.value[i + 1]])

\* self.graph[u][v].get('weight', 0)
get_weight(G, e) ==
    LET a == G.attr[{e[1], e[2]}]
    IN IF "weight" \in DOMAIN a THEN a.weight ELSE DEFAULT_WEIGHT

\* The loop of analyze_weak_links over the edges es[i..], from dict acc.
RECURSIVE WeakLinks(_, _, _, _, _)
WeakLinks(G, es, i, acc, limit) ==
    IF i > Len(es) THEN acc
    ELSE LET w == get_weight(G, es[i])
         IN WeakLinks(G, es, i + 1,
                      IF w < limit THEN (str_edge(es[i]) :> w) @@ acc ELSE acc, limit)

\* analyze_weak_links with weight <= 0.2, and with .setdefault('weight', 0)
\* for .get('weight', 0).
analyze_weak_links_inclusive(G) ==
    [raised |-> FALSE, value |-> WeakLinks(G, edges(G), 1, << >>, WEAK_THRESHOLD + 1),
     graph |-> G]

analyze_weak_links_setdefault(G) ==
    [raised |-> FALSE, value |-> WeakLinks(G, edges(G), 1, << >>, WEAK_THRESHOLD),
     graph |-> [G EXCEPT !.attr = [e \in DOMAIN @ |->
                                      IF "weight" \in DOMAIN @[e] THEN @[e]
                                      ELSE [weight |-> DEFAULT_WEIGHT]]]]

\* analyze_weak_links: {} on an edgeless graph, else every edge of weight
\* < 0.2 under str(edge).  graph is the engine's graph when the call ends.
analyze_weak_links(G) ==
    [raised |-> FALSE,
     value |-> IF EdgeSet(G) = {} THEN << >>
               ELSE WeakLinks(G, edges(G), 1, << >>, WEAK_THRESHOLD),
     graph |-> G]

\* ------------------------------------------------------------------- state
VARIABLES
    status,   \* "new": __init__ not run; "built": it returned an engine;
              \* "failed": it raised, so the caller holds no engine
    self,     \* the instance's attributes: self.graph_data, self.graph
    results   \* query name -> what its latest call gave the caller

vars == <<status, self, results>>

Queries == {"compute_centrality", "identify_bottlenecks", "detect_communities",
            "analyze_weak_links"}

Attrs == DOMAIN self
Called == DOMAIN results

Init ==
    /\ status = "new"
    /\ self = << >>
    /\ results = << >>

\* SocialGraphAnalyzer(d): graph_data is stored first, then the graph is
\* built; when _build_graph raises, self.graph is never assigned and the
\* exception leaves the constructor.
__init__(d) ==
    /\ status = "new"
    /\ LET g == _build_graph(d)
       IN IF g.raised
          THEN status' = "failed" /\ self' = [graph_data |-> d]
          ELSE status' = "built" /\ self' = [graph_data |-> d, graph |-> g.value]
    /\ UNCHANGED results

Construct == status = "new" /\ \E d \in Inputs : __init__(d)

ConstructGraph == status = "new" /\ \E d \in GraphInputs : __init__(d)

Weighted(G) == {e \in DOMAIN G.attr : "weight" \in DOMAIN G.attr[e]}

\* A caller stores an explicit weight on an edge of the engine's graph
\* (analyzer.graph[u][v]['weight'] = w) while preparing it, before the first
\* query.
SetEdgeWeight ==
    /\ status = "built"
    /\ Called = {}
    /\ Cardinality(Weighted(self.graph)) < MaxWeighted
    /\ \E e \in DOMAIN self.graph.attr \ Weighted(self.graph) : \E w \in WeightValues :
           self' = [self EXCEPT !.graph.attr[e] = [weight |-> w]]
    /\ UNCHANGED <<status, results>>

Record(q, r) == (q :> r) @@ results

CallComputeCentrality ==
    /\ status = "built"
    /\ results' = Record("compute_centrality", compute_centrality(self.graph))
    /\ UNCHANGED <<status, self>>

CallIdentifyBottlenecks ==
    /\ status = "built"
    /\ results' = Record("identify_bottlenecks", identify_bottlenecks(self.graph))
    /\ UNCHANGED <<status, self>>

CallDetectCommunities ==
    /\ status = "built"
    /\ results' = Record("detect_communities", detect_communities(self.graph))
    /\ UNCHANGED <<status, self>>

CallAnalyzeWeakLinks ==
    /\ status = "built"
    /\ LET r == analyze_weak_links(self.graph)
       IN /\ results' = Record("analyze_weak_links", [raised |-> r.raised, value |-> r.value])
          /\ self' = [self EXCEPT !.graph = r.graph]
    /\ UNCHANGED status

Next ==
    \/ Construct
    \/ SetEdgeWeight
    \/ CallComputeCentrality
    \/ CallIdentifyBottlenecks
    \/ CallDetectCommunities
    \/ CallAnalyzeWeakLinks

Spec == Init /\ [][Next]_vars

NextGraphs ==
    \/ ConstructGraph
    \/ CallComputeCentrality
    \/ CallIdentifyBottlenecks
    \/ CallDetectCommunities
    \/ CallAnalyzeWeakLinks

\* The engine over every simple graph of up to MaxGraphNodes nodes.
SpecGraphs == Init /\ [][NextGraphs]_vars

\* ------------------------------------------------------------ properties
Built == status = "built"
Returned(q) == q \in Called /\ ~results[q].raised

\* The weight analyze_weak_links reads for the undirected edge e.
WeightOf(G, e) == IF "weight" \in DOMAIN G.attr[e] THEN G.attr[e].weight ELSE 0

\* The two string keys an undirected edge can be printed under.
KeysOfEdge(e) == {str_edge(<<u, v>>) : u \in e, v \in e} \ 
                 (IF Cardinality(e) = 1 THEN {} ELSE {str_edge(<<u, u>>) : u \in e})

\* C1: constructing with an empty mapping always raises: the constructor ends
\* in "failed", self.graph was never assigned and no query has run.
C1_EmptyMappingRaises ==
    (status # "new" /\ Len(self.graph_data) = 0) =>
        /\ status = "failed"
        /\ "graph" \notin Attrs
        /\ Called = {}

C1_Witness == status = "failed" /\ Len(self.graph_data) = 0

\* C2: for every non-empty mapping construction succeeds and the graph's node
\* set is exactly the keys together with all listed neighbours.
C2_NodesAreKeysAndNeighbours ==
    (status # "new" /\ Len(self.graph_data) > 0) =>
        /\ Built
        /\ NodeSet(self.graph) = Keys(self.graph_data) \cup Listed(self.graph_data)

C2_Witness ==
    /\ Built
    /\ Listed(self.graph_data) \ Keys(self.graph_data) # {}
    /\ (Listed(self.graph_data) \ Keys(self.graph_data)) \subseteq NodeSet(self.graph)

\* C5: analyze_weak_links returns, without raising, exactly the edges whose
\* weight (0 when the edge has none) is below 0.2, each once and mapped to its
\* weight; an edgeless graph gives the empty mapping.
C5_WeakLinksExact ==
    "analyze_weak_links" \in Called =>
        LET G == self.graph
            r == results["analyze_weak_links"]
            weak == {e \in EdgeSet(G) : WeightOf(G, e) < WEAK_THRESHOLD}
        IN /\ ~r.raised
           /\ DOMAIN r.value \subseteq UNION {KeysOfEdge(e) : e \in weak}
           /\ \A e \in weak :
                 /\ Cardinality(KeysOfEdge(e) \cap DOMAIN r.value) = 1
                 /\ \A k \in KeysOfEdge(e) \cap DOMAIN r.value : r.value[k] = WeightOf(G, e)
           /\ EdgeSet(G) = {} => DOMAIN r.value = {}

C5_Witness ==
    /\ Returned("analyze_weak_links")
    /\ \E e1, e2 \in EdgeSet(self.graph) :
          /\ "weight" \in DOMAIN self.graph.attr[e1]
          /\ self.graph.attr[e1].weight >= WEAK_THRESHOLD
          /\ KeysOfEdge(e1) \cap DOMAIN results["analyze_weak_links"].value = {}
          /\ "weight" \in DOMAIN self.graph.attr[e2]
          /\ self.graph.attr[e2].weight < WEAK_THRESHOLD
          /\ KeysOfEdge(e2) \cap DOMAIN results["analyze_weak_links"].value # {}

\* The engine's graph as another mapping d of the same undirected graph would
\* have built it, the edges carrying the same weights.
SameGraphFrom(d) ==
    LET G2 == from_dict_of_lists(d)
    IN [G2 EXCEPT !.attr = self.graph.attr]

Equivalent(d) ==
    /\ Len(d) > 0
    /\ NodeSet(from_dict_of_lists(d)) = NodeSet(self.graph)
    /\ EdgeSet(from_dict_of_lists(d)) = EdgeSet(self.graph)

\* C6: the key of an undirected edge is canonical: every mapping that
\* describes the same undirected graph gives the same set of keys.
C6_CanonicalEdgeKeys ==
    Returned("analyze_weak_links") =>
        \A d \in Inputs :
            Equivalent(d) =>
                DOMAIN analyze_weak_links(SameGraphFrom(d)).value
                    = DOMAIN results["analyze_weak_links"].value

\* C7: detect_communities returns without raising a mapping keyed 0..k-1 of
\* pairwise disjoint node lists that together cover every node.
C7_CommunitiesPartition ==
    "detect_communities" \in Called =>
        LET r == results["detect_communities"]
        IN /\ ~r.raised
           /\ \E k \in 0..Len(self.graph.nodes) : DOMAIN r.value = 0..(k - 1)
           /\ UNION {Elems(r.value[i]) : i \in DOMAIN r.value} = NodeSet(self.graph)
           /\ \A i, j \in DOMAIN r.value :
                 i # j => Elems(r.value[i]) \cap Elems(r.value[j]) = {}

\* C8: compute_centrality returns one entry per node, and every entry is 0
\* when the graph has no edges or fewer than three nodes.
C8_CentralityZeroOnSmallGraphs ==
    "compute_centrality" \in Called =>
        LET r == results["compute_centrality"]
            G == self.graph
        IN /\ ~r.raised
           /\ DOMAIN r.value.num = NodeSet(G)
           /\ (EdgeSet(G) = {} \/ Cardinality(NodeSet(G)) < 3) =>
                 \A v \in NodeSet(G) : r.value.num[v] = 0

C8_Witness ==
    /\ Returned("compute_centrality")
    /\ Cardinality(NodeSet(self.graph)) = 2
    /\ \E e \in EdgeSet(self.graph) : Cardinality(e) = 2
    /\ \A v \in NodeSet(self.graph) : results["compute_centrality"].value.num[v] = 0

\* C9: a call of any of the four queries, returning or raising, leaves the
\* instance's attributes (graph_data; the graph's nodes, edges and edge
\* attributes) as they were, and every query called before gives the same
\* result when it is called again.
C9_QueriesReadOnly ==
    [][(Built /\ Called' # {}) =>
          /\ self' = self
          /\ \A q \in Called : results'[q] = results[q]]_vars

C9_Witness ==
    /\ Called = Queries
    /\ results["detect_communities"].raised
    /\ Weighted(self.graph) # {}
    /\ self.graph = [from_dict_of_lists(self.graph_data) EXCEPT !.attr = self.graph.attr]

\* The scores compute_centrality gives for the engine's graph.
Scores == compute_centrality(self.graph).value
MaxScore == MaxOf(Scores.num)

\* C3: identify_bottlenecks returns exactly the nodes whose score is strictly
\* greater than 0.75 times the maximum score, each with the score
\* compute_centrality gave it.
C3_BottlenecksAboveThreshold ==
    ("identify_bottlenecks" \in Called /\ "compute_centrality" \in Called) =>
        LET r == results["identify_bottlenecks"]
            c == results["compute_centrality"].value
        IN /\ ~r.raised
           /\ r.value.den = c.den
           /\ DOMAIN r.value.num =
                 {v \in DOMAIN c.num : 4 * c.num[v] > 3 * MaxOf(c.num)}
           /\ \A v \in DOMAIN r.value.num : r.value.num[v] = c.num[v]

C3_Witness ==
    /\ Returned("identify_bottlenecks")
    /\ Returned("compute_centrality")
    /\ Cardinality(DOMAIN results["identify_bottlenecks"].value.num) >= 2
    /\ \E v \in NodeSet(self.graph) :
          v \notin DOMAIN results["identify_bottlenecks"].value.num

AllScoresEqualNonZero ==
    /\ \A u, v \in NodeSet(self.graph) : Scores.num[u] = Scores.num[v]
    /\ \E v \in NodeSet(self.graph) : Scores.num[v] > 0

\* C4 as stated: when all scores are equal and non-zero, identify_bottlenecks
\* returns an empty mapping.
C4_EqualScoresGiveEmpty ==
    (Returned("identify_bottlenecks") /\ AllScoresEqualNonZero) =>
        DOMAIN results["identify_bottlenecks"].value.num = {}

\* C4 as amended: when all scores are equal and non-zero, identify_bottlenecks
\* returns every node, each mapped to the common score.
C4_EqualScoresGiveAll ==
    ("identify_bottlenecks" \in Called /\ AllScoresEqualNonZero) =>
        LET r == results["identify_bottlenecks"]
        IN /\ ~r.raised
           /\ DOMAIN r.value.num = NodeSet(self.graph)
           /\ \A v \in NodeSet(self.graph) :
                 r.value.num[v] = Scores.num[v] /\ r.value.den = Scores.den

C4_Witness ==
    /\ Returned("identify_bottlenecks")
    /\ AllScoresEqualNonZero
    /\ Cardinality(NodeSet(self.graph)) >= 4

\* C10: identify_bottlenecks returns an empty mapping exactly when the maximum
\* score is 0; when the maximum is positive every node attaining it is
\* returned.
C10_EmptyIffMaxZero ==
    "identify_bottlenecks" \in Called =>
        LET r == results["identify_bottlenecks"]
        IN /\ ~r.raised
           /\ (DOMAIN r.value.num = {}) <=> (MaxScore = 0)
           /\ MaxScore > 0 =>
                 \A v \in NodeSet(self.graph) :
                     Scores.num[v] = MaxScore => v \in DOMAIN r.value.num

C10_Witness ==
    /\ Returned("identify_bottlenecks")
    /\ MaxScore > 0
    /\ \E v \in NodeSet(self.graph) :
          Scores.num[v] = MaxScore /\ v \in DOMAIN results["identify_bottlenecks"].value.num
    /\ \E v \in NodeSet(self.graph) : Scores.num[v] < MaxScore

====
